---- MODULE Spec2Model ----
(***************************************************************************)
(* Flash-group topology manager of the CubeFS master                       *)
(* (master/flash_group.go): request handlers run concurrently, one per    *)
(* worker; every handler is cut at its lock acquisitions, its consensus   *)
(* submissions and its accesses to shared maps.                            *)
(***************************************************************************)
EXTENDS Integers, Sequences, FiniteSets, TLC

\* ------------------------------------------------------------------ bounds
\* Largest node count a zone-based request asks for.
MaxCount == 2
\* Requests the workers take up in one run.
MaxRequests == 2

\* ------------------------------------------------------------ the universe
Procs == {"w1", "w2"}
NoProc == "none"

Nodes == {"n1", "n2"}
UnknownAddr == "nx"
Zones == {"z1", "z2"}
UnknownZone == "zx"
\* FlashNode.ZoneName: fixed at registration.
ZoneName(n) == "z1"

\* The groups of the running master, and the IDs idAlloc can still hand out.
InitialGroups == {1, 2}
GroupIDs == 1..(Cardinality(InitialGroups) + MaxRequests)
unusedFlashNodeFlashGroupID == 0

Nil == "nil"
Inactive == "Inactive"
Active == "Active"

VARIABLES
    flashGroupMap,   \* flashNodeTopo's registry: the IDs of the registered groups
    Status,          \* FlashGroup.Status, per group object
    flashNodes,      \* FlashGroup.flashNodes (the keys), per group object
    fgLock,          \* FlashGroup.lock: the worker holding the write lock
    FlashGroupID,    \* FlashNode.FlashGroupID
    IsActive,        \* FlashNode.IsActive
    nodeLock,        \* FlashNode's mutex: the worker holding it
    nodeStore,       \* consensus sink: FlashGroupID of the last accepted node record
    groupStore,      \* consensus sink: status of the last accepted group record, or "deleted"
    Slots,           \* FlashGroup.Slots, per group object
    commonID,        \* idAlloc: the last common ID handed out
    clientCache,     \* flashNodeTopo.clientCache: the published snapshot
    clientOff,       \* flashNodeTopo.clientOff: TRUE when it holds the empty response
    clientUpdateCh,  \* a rebuild of the snapshot has been requested and not yet begun
    updater,         \* the rebuild in progress: groups still to read, view built so far
    pc,              \* where each worker stands in its handler
    loc,             \* each worker's locals
    eff,             \* what the worker's current request has done so far (history)
    budget           \* requests the workers may still take up

vars == <<flashGroupMap, Status, flashNodes, fgLock, FlashGroupID, IsActive, nodeLock,
          nodeStore, groupStore, Slots, commonID, clientCache, clientOff, clientUpdateCh,
          updater, pc, loc, eff, budget>>

\* The published snapshot and what serves and rebuilds it.
cacheVars == <<clientCache, clientOff, clientUpdateCh, updater>>
\* The slot lists and the ID allocator.
slotVars == <<Slots, commonID>>
topoVars == <<flashGroupMap, Status, flashNodes, fgLock, groupStore, slotVars, cacheVars>>
nodeVars == <<FlashGroupID, IsActive, nodeLock, nodeStore>>

\* ------------------------------------------------------------------ helpers
RECURSIVE Arrangements(_, _)
\* The sequences of k distinct elements of S: the orders in which a Go map
\* (or sync.Map) range can deliver k of its keys.
Arrangements(S, k) ==
    IF k = 0 THEN {<<>>}
    ELSE UNION {{<<x>> \o s : s \in Arrangements(S \ {x}, k - 1)} : x \in S}

Range(s) == {s[i] : i \in 1..Len(s)}

BlankLoc == [op |-> "none", flashGroup |-> 0, addr |-> "", zoneName |-> "", count |-> 0,
             hosts |-> <<>>, i |-> 0, successHost |-> <<>>, oldFgID |-> 0,
             oldStatus |-> Inactive, fgStatus |-> Inactive, enabled |-> TRUE,
             cache |-> {}, slots |-> <<>>, err |-> Nil]

BlankEff == [submits |-> 0, wrote |-> {}, committed |-> <<>>, mapped |-> {},
             rebuilds |-> 0, deleted |-> FALSE]

\* No rebuild is in progress.
IdleUpdater == [busy |-> FALSE, todo |-> {}, view |-> {}]

\* The members group 1 may have when the run starts.
InitialMembers == {{}, {"n1"}}

\* A running master: groups 1 and 2 are registered, group 1 is active and has
\* no member or node n1 as its member (assigned, persisted and published),
\* the other nodes are unassigned, and no request is in progress.
Start(requests) ==
    /\ flashGroupMap = InitialGroups
    /\ Status = [g \in GroupIDs |-> IF g = 1 THEN Active ELSE Inactive]
    /\ \E members \in InitialMembers :
         /\ flashNodes = [g \in GroupIDs |-> IF g = 1 THEN members ELSE {}]
         /\ FlashGroupID = [n \in Nodes |-> IF n \in members THEN 1
                                             ELSE unusedFlashNodeFlashGroupID]
         /\ nodeStore = [n \in Nodes |-> IF n \in members THEN 1
                                          ELSE unusedFlashNodeFlashGroupID]
         /\ clientCache = {<<1, <<1>>, members>>}
    /\ fgLock = [g \in GroupIDs |-> NoProc]
    /\ IsActive = [n \in Nodes |-> TRUE]
    /\ nodeLock = [n \in Nodes |-> NoProc]
    /\ groupStore = [g \in GroupIDs |-> IF g = 1 THEN Active ELSE Inactive]
    /\ Slots = [g \in GroupIDs |-> IF g \in InitialGroups THEN <<g>> ELSE <<>>]
    /\ commonID = Cardinality(InitialGroups)
    /\ clientOff = FALSE
    /\ clientUpdateCh = FALSE
    /\ updater = IdleUpdater
    /\ pc = [p \in Procs |-> "idle"]
    /\ loc = [p \in Procs |-> BlankLoc]
    /\ eff = [p \in Procs |-> BlankEff]
    /\ budget = requests

Init == Start(MaxRequests)

\* flashNodeTopo.getFlashGroup: the lookup every handler starts with.
getFlashGroup(id) == id \in flashGroupMap

\* c.peekFlashNode: the node registry's lookup by address.
peekFlashNode(addr) == addr \in Nodes

\* flashNodeTopo.updateClientCache: the handler requests a rebuild of the
\* published snapshot and goes on; it takes no lock and waits for nothing.
updateClientCache(p) ==
    /\ clientUpdateCh' = TRUE
    /\ eff' = [eff EXCEPT ![p].rebuilds = @ + 1]

\* What a rebuild reads of one group, under the group's read lock: nothing of
\* an inactive group, the slots and the member hosts of an active one.
clientView(g) ==
    IF Status[g] = Active THEN {<<g, Slots[g], flashNodes[g]>>} ELSE {}

\* The snapshot of the registry as it stands: what a rebuild publishes when
\* nothing changes while it runs.
clientResponse == UNION {clientView(g) : g \in flashGroupMap}


\* ------------------------------------------------- single-node assignment
\* The deferred unlock of lines 348 and 453 left out: the caller keeps the
\* node's lock when the call returns.
unlockedFlashNode_held(p) == p

\* Lines 348 and 453 (deferred): the holder of the node's lock once
\* setFlashNodeToFlashGroup or setFlashNodeToUnused has returned, nobody.
unlockedFlashNode(p) == NoProc

\* The conflict check of line 349 left out.
alreadyAssigned_unchecked(n) == FALSE

\* Line 349: the node already belongs to some group.
alreadyAssigned(n) == FlashGroupID[n] # unusedFlashNodeFlashGroupID

\* The restore of line 361 left out: the field keeps the tentative value.
restoredFlashGroupID_kept(p) == FlashGroupID[loc[p].addr]

\* Line 361: the value the field gets back when the sink rejects the record.
restoredFlashGroupID(p) == loc[p].oldFgID

\* The zone loop going on to the next host after a failed one, the return of
\* lines 379-382 left out.
AddReturn_continue(l, e) ==
    IF l.op = "addNode" THEN [l |-> [l EXCEPT !.err = e], pc |-> "add_reply"]
    ELSE LET s == IF e = Nil THEN Append(l.successHost, l.addr) ELSE l.successHost
             r == IF e = Nil THEN l.err ELSE e
         IN  IF l.i < Len(l.hosts)
             THEN [l |-> [l EXCEPT !.successHost = s, !.err = r, !.i = l.i + 1,
                                   !.addr = l.hosts[l.i + 1]],
                   pc |-> "add_set"]
             ELSE [l |-> [l EXCEPT !.successHost = s, !.err = r], pc |-> "add_reply"]

\* What addFlashNodeToFlashGroup's caller does with its result e, as the
\* worker's locals and its next step: the handler replies (single node, lines
\* 322-326); the zone loop (lines 378-386) returns at an error and goes to the
\* next host otherwise, until the list is done.
AddReturn(l, e) ==
    IF l.op = "addNode" \/ e # Nil
    THEN [l |-> [l EXCEPT !.err = e], pc |-> "add_reply"]
    ELSE LET s == Append(l.successHost, l.addr)
         IN  IF l.i < Len(l.hosts)
             THEN [l |-> [l EXCEPT !.successHost = s, !.i = l.i + 1,
                                   !.addr = l.hosts[l.i + 1]],
                   pc |-> "add_set"]
             ELSE [l |-> [l EXCEPT !.successHost = s], pc |-> "add_reply"]

\* Lines 343-359: look the node up, take its lock and, under the lock, make the
\* conflict check, the liveness check (stale: the last report is older than the
\* timeout) and the tentative write. A failed check releases the lock (line
\* 348, deferred) and returns the error to the caller (lines 336-338).
setFlashNodeToFlashGroup(p) ==
    LET n == loc[p].addr IN
    /\ pc[p] = "add_set"
    /\ \E stale \in BOOLEAN :
         IF ~peekFlashNode(n)
         THEN /\ stale = FALSE
              /\ loc' = [loc EXCEPT ![p] = AddReturn(loc[p], "NotFound").l]
              /\ pc' = [pc EXCEPT ![p] = AddReturn(loc[p], "NotFound").pc]
              /\ UNCHANGED <<FlashGroupID, IsActive, nodeLock, eff>>
         ELSE /\ nodeLock[n] = NoProc
              /\ IF alreadyAssigned(n)
                 THEN /\ stale = FALSE
                      /\ loc' = [loc EXCEPT ![p] = AddReturn(loc[p], "Conflict").l]
                      /\ pc' = [pc EXCEPT ![p] = AddReturn(loc[p], "Conflict").pc]
                      /\ UNCHANGED <<FlashGroupID, IsActive, nodeLock, eff>>
                 ELSE IF stale
                 THEN /\ IsActive' = [IsActive EXCEPT ![n] = FALSE]
                      /\ loc' = [loc EXCEPT ![p] = AddReturn(loc[p], "Stale").l]
                      /\ pc' = [pc EXCEPT ![p] = AddReturn(loc[p], "Stale").pc]
                      /\ UNCHANGED <<FlashGroupID, nodeLock, eff>>
                 ELSE /\ nodeLock' = [nodeLock EXCEPT ![n] = p]
                      /\ loc' = [loc EXCEPT ![p].oldFgID = FlashGroupID[n]]
                      /\ FlashGroupID' = [FlashGroupID EXCEPT ![n] = loc[p].flashGroup]
                      /\ eff' = [eff EXCEPT ![p].wrote = @ \cup {n}]
                      /\ pc' = [pc EXCEPT ![p] = "add_sync"]
                      /\ UNCHANGED IsActive
    /\ UNCHANGED <<topoVars, nodeStore, budget>>

\* Lines 360-366: syncUpdateFlashNode; the sink accepts the record or rejects
\* it, and a rejection restores the field. Then the lock is released (line 348,
\* deferred): an error goes back to the caller (lines 336-338), a success goes
\* on to putFlashNode.
setFlashNodeToFlashGroup_sync(p) ==
    LET n == loc[p].addr IN
    /\ pc[p] = "add_sync"
    /\ \E accepted \in BOOLEAN :
         IF accepted
         THEN /\ nodeStore' = [nodeStore EXCEPT ![n] = FlashGroupID[n]]
              /\ eff' = [eff EXCEPT ![p].submits = @ + 1, ![p].committed = Append(@, n)]
              /\ pc' = [pc EXCEPT ![p] = "add_put"]
              /\ UNCHANGED <<FlashGroupID, loc>>
         ELSE /\ FlashGroupID' = [FlashGroupID EXCEPT ![n] = restoredFlashGroupID(p)]
              /\ loc' = [loc EXCEPT ![p] = AddReturn(loc[p], "Persistence").l]
              /\ pc' = [pc EXCEPT ![p] = AddReturn(loc[p], "Persistence").pc]
              /\ eff' = [eff EXCEPT ![p].submits = @ + 1]
              /\ UNCHANGED nodeStore
    /\ nodeLock' = [nodeLock EXCEPT ![n] = unlockedFlashNode(p)]
    /\ UNCHANGED <<topoVars, IsActive, budget>>

\* Line 63 storing a fresh map of the one node: the members put before are lost.
flashNodesWith_alone(g, addr) == {addr}

\* Line 63: the member map with the node put in.
flashNodesWith(g, addr) == flashNodes[g] \cup {addr}

\* Lines 339 and 61-65: insert the node into the group's member map under the
\* group's write lock, then return to the caller.
putFlashNode(p) ==
    LET g == loc[p].flashGroup IN
    /\ pc[p] = "add_put"
    /\ fgLock[g] = NoProc
    /\ flashNodes' = [flashNodes EXCEPT ![g] = flashNodesWith(g, loc[p].addr)]
    /\ eff' = [eff EXCEPT ![p].mapped = @ \cup {loc[p].addr}]
    /\ loc' = [loc EXCEPT ![p] = AddReturn(loc[p], Nil).l]
    /\ pc' = [pc EXCEPT ![p] = AddReturn(loc[p], Nil).pc]
    /\ UNCHANGED <<flashGroupMap, Status, fgLock, groupStore, slotVars, cacheVars, nodeVars, budget>>

\* ---------------------------------------------------- single-node release
\* Line 454 testing only that the node is assigned at all, to whichever group.
notInTargetGroup_anyGroup(n, g) == FlashGroupID[n] = unusedFlashNodeFlashGroupID

\* Line 454: the node is not assigned to the group it is to be released from.
notInTargetGroup(n, g) == FlashGroupID[n] # g

\* Line 461: the value the field gets back when the sink rejects the record.
restoredUnusedFlashGroupID(p) == loc[p].oldFgID

\* What removeFlashNodeFromFlashGroup's caller does with its result e, as the
\* worker's locals and its next step: the handler replies (single node, lines
\* 406-410); the zone loop (lines 434-445) returns at an error and stops once
\* count hosts are done; the group-removal loop (lines 226-234) returns at an
\* error and goes on to the registry once every host is done.
RemoveReturn(l, e) ==
    IF e # Nil
    THEN [l |-> [l EXCEPT !.err = e],
          pc |-> IF l.op = "removeGroup" THEN "rg_reply" ELSE "rm_reply"]
    ELSE IF l.op = "removeNode" THEN [l |-> l, pc |-> "rm_reply"]
    ELSE LET s == Append(l.successHost, l.addr)
         IN  IF l.op = "removeZone" /\ Len(s) >= l.count
             THEN [l |-> [l EXCEPT !.successHost = s], pc |-> "rm_reply"]
             ELSE IF l.i < Len(l.hosts)
             THEN [l |-> [l EXCEPT !.successHost = s, !.i = l.i + 1,
                                   !.addr = l.hosts[l.i + 1]],
                   pc |-> "rm_set"]
             ELSE [l |-> [l EXCEPT !.successHost = s],
                   pc |-> IF l.op = "removeGroup" THEN "rg_topo" ELSE "rm_reply"]

\* Lines 448-459: look the node up, take its lock and, under the lock, make the
\* conflict check and the tentative write. A failed check releases the lock
\* (line 453, deferred) and returns the error to the caller (lines 420-422).
setFlashNodeToUnused(p) ==
    LET n == loc[p].addr IN
    /\ pc[p] = "rm_set"
    /\ IF ~peekFlashNode(n)
       THEN /\ loc' = [loc EXCEPT ![p] = RemoveReturn(loc[p], "NotFound").l]
            /\ pc' = [pc EXCEPT ![p] = RemoveReturn(loc[p], "NotFound").pc]
            /\ UNCHANGED <<FlashGroupID, nodeLock, eff>>
       ELSE /\ nodeLock[n] = NoProc
            /\ IF notInTargetGroup(n, loc[p].flashGroup)
               THEN /\ loc' = [loc EXCEPT ![p] = RemoveReturn(loc[p], "Conflict").l]
                    /\ pc' = [pc EXCEPT ![p] = RemoveReturn(loc[p], "Conflict").pc]
                    /\ UNCHANGED <<FlashGroupID, nodeLock, eff>>
               ELSE /\ nodeLock' = [nodeLock EXCEPT ![n] = p]
                    /\ loc' = [loc EXCEPT ![p].oldFgID = FlashGroupID[n]]
                    /\ FlashGroupID' = [FlashGroupID EXCEPT ![n] = unusedFlashNodeFlashGroupID]
                    /\ eff' = [eff EXCEPT ![p].wrote = @ \cup {n}]
                    /\ pc' = [pc EXCEPT ![p] = "rm_sync"]
    /\ UNCHANGED <<topoVars, IsActive, nodeStore, budget>>

\* Lines 460-465: syncUpdateFlashNode; a rejection restores the field. Then
\* the lock is released (line 453, deferred): an error goes back to the caller
\* (lines 420-422), a success goes on to removeFlashNode.
setFlashNodeToUnused_sync(p) ==
    LET n == loc[p].addr IN
    /\ pc[p] = "rm_sync"
    /\ \E accepted \in BOOLEAN :
         IF accepted
         THEN /\ nodeStore' = [nodeStore EXCEPT ![n] = FlashGroupID[n]]
              /\ eff' = [eff EXCEPT ![p].submits = @ + 1, ![p].committed = Append(@, n)]
              /\ pc' = [pc EXCEPT ![p] = "rm_del"]
              /\ UNCHANGED <<FlashGroupID, loc>>
         ELSE /\ FlashGroupID' = [FlashGroupID EXCEPT ![n] = restoredUnusedFlashGroupID(p)]
              /\ loc' = [loc EXCEPT ![p] = RemoveReturn(loc[p], "Persistence").l]
              /\ pc' = [pc EXCEPT ![p] = RemoveReturn(loc[p], "Persistence").pc]
              /\ eff' = [eff EXCEPT ![p].submits = @ + 1]
              /\ UNCHANGED nodeStore
    /\ nodeLock' = [nodeLock EXCEPT ![n] = unlockedFlashNode(p)]
    /\ UNCHANGED <<topoVars, IsActive, budget>>

\* Lines 423 and 67-71: delete the node from the group's member map under the
\* group's write lock, then return to the caller.
removeFlashNode(p) ==
    LET g == loc[p].flashGroup IN
    /\ pc[p] = "rm_del"
    /\ fgLock[g] = NoProc
    /\ flashNodes' = [flashNodes EXCEPT ![g] = @ \ {loc[p].addr}]
    /\ eff' = [eff EXCEPT ![p].mapped = @ \cup {loc[p].addr}]
    /\ loc' = [loc EXCEPT ![p] = RemoveReturn(loc[p], Nil).l]
    /\ pc' = [pc EXCEPT ![p] = RemoveReturn(loc[p], Nil).pc]
    /\ UNCHANGED <<flashGroupMap, Status, fgLock, groupStore, slotVars, cacheVars, nodeVars, budget>>

\* ------------------------------------------------------- add-node handler
\* flashNodeTopo.getZone: the zone registry's lookup by name.
getZone(zoneName) == zoneName \in Zones

\* FlashNodeZone.selectFlashNodes' candidates: the zone's nodes that are
\* active, unassigned and not excluded.
eligibleFlashNodes(zoneName, excludeHosts) ==
    {n \in Nodes : /\ ZoneName(n) = zoneName
                   /\ IsActive[n]
                   /\ FlashGroupID[n] = unusedFlashNodeFlashGroupID
                   /\ n \notin excludeHosts}

\* FlashNodeZone.selectFlashNodes: count of the candidates in any order, or
\* no list at all (an error) when there are fewer than count.
selectFlashNodes(zoneName, count, excludeHosts) ==
    IF Cardinality(eligibleFlashNodes(zoneName, excludeHosts)) < count THEN {}
    ELSE Arrangements(eligibleFlashNodes(zoneName, excludeHosts), count)

\* Lines 305-325: parse the request (an address, or a zone and a count), look
\* the group up and start the single-node or the zone-based assignment.
flashGroupAddFlashNode(p) ==
    /\ pc[p] = "idle"
    /\ budget > 0
    /\ \E id \in GroupIDs :
         \/ /\ ~getFlashGroup(id)
            /\ loc' = [loc EXCEPT ![p] = [BlankLoc EXCEPT !.op = "add", !.flashGroup = id,
                                                           !.err = "NotFound"]]
            /\ pc' = [pc EXCEPT ![p] = "done"]
         \/ /\ getFlashGroup(id)
            /\ \E addr \in Nodes \cup {UnknownAddr} :
                 loc' = [loc EXCEPT ![p] = [BlankLoc EXCEPT !.op = "addNode",
                                                         !.flashGroup = id, !.addr = addr]]
            /\ pc' = [pc EXCEPT ![p] = "add_set"]
         \/ /\ getFlashGroup(id)
            /\ \E zoneName \in Zones \cup {UnknownZone}, count \in 0..MaxCount :
                 loc' = [loc EXCEPT ![p] = [BlankLoc EXCEPT !.op = "addZone",
                              !.flashGroup = id, !.zoneName = zoneName, !.count = count]]
            /\ pc' = [pc EXCEPT ![p] = "az_select"]
    /\ budget' = budget - 1
    /\ UNCHANGED <<topoVars, nodeVars, eff>>

\* The return of lines 374-376 left out: with too few candidates the loop
\* goes on with the candidates there are.
selectFlashNodesFromZoneAddToFlashGroup_partial(p) ==
    LET l == loc[p]
        found == eligibleFlashNodes(l.zoneName, {})
        k == IF Cardinality(found) < l.count THEN Cardinality(found) ELSE l.count
    IN
    /\ pc[p] = "az_select"
    /\ IF ~getZone(l.zoneName)
       THEN /\ loc' = [loc EXCEPT ![p].err = "NotFound"]
            /\ pc' = [pc EXCEPT ![p] = "add_reply"]
       ELSE \E newHosts \in Arrangements(found, k) :
              IF newHosts = <<>>
              THEN /\ pc' = [pc EXCEPT ![p] = "add_reply"]
                   /\ UNCHANGED loc
              ELSE /\ loc' = [loc EXCEPT ![p].hosts = newHosts, ![p].i = 1,
                                         ![p].addr = newHosts[1]]
                   /\ pc' = [pc EXCEPT ![p] = "add_set"]
    /\ UNCHANGED <<topoVars, nodeVars, eff, budget>>

\* Lines 368-377: the zone lookup and the selection; either failure returns
\* before any node is touched.
selectFlashNodesFromZoneAddToFlashGroup(p) ==
    LET l == loc[p] IN
    /\ pc[p] = "az_select"
    /\ IF ~getZone(l.zoneName)
       THEN /\ loc' = [loc EXCEPT ![p].err = "NotFound"]
            /\ pc' = [pc EXCEPT ![p] = "add_reply"]
       ELSE IF selectFlashNodes(l.zoneName, l.count, {}) = {}
       THEN /\ loc' = [loc EXCEPT ![p].err = "InsufficientCapacity"]
            /\ pc' = [pc EXCEPT ![p] = "add_reply"]
       ELSE \E newHosts \in selectFlashNodes(l.zoneName, l.count, {}) :
              IF newHosts = <<>>
              THEN /\ pc' = [pc EXCEPT ![p] = "add_reply"]
                   /\ UNCHANGED loc
              ELSE /\ loc' = [loc EXCEPT ![p].hosts = newHosts, ![p].i = 1,
                                         ![p].addr = newHosts[1]]
                   /\ pc' = [pc EXCEPT ![p] = "add_set"]
    /\ UNCHANGED <<topoVars, nodeVars, eff, budget>>

\* Lines 326-330: an error is replied at once; a success rebuilds the client cache.
flashGroupAddFlashNode_reply(p) ==
    /\ pc[p] = "add_reply"
    /\ IF loc[p].err # Nil
       THEN /\ pc' = [pc EXCEPT ![p] = "done"]
            /\ UNCHANGED <<clientUpdateCh, eff>>
       ELSE /\ updateClientCache(p)
            /\ pc' = [pc EXCEPT ![p] = "add_view"]
    /\ UNCHANGED <<flashGroupMap, Status, flashNodes, fgLock, groupStore, slotVars,
                   clientCache, clientOff, updater, nodeVars, loc, budget>>

\* Lines 331 and 127-141: the reply's admin view, read under the group's read lock.
flashGroupAddFlashNode_view(p) ==
    /\ pc[p] = "add_view"
    /\ fgLock[loc[p].flashGroup] = NoProc
    /\ pc' = [pc EXCEPT ![p] = "done"]
    /\ UNCHANGED <<topoVars, nodeVars, loc, eff, budget>>

\* ---------------------------------------------------- remove-node handler
\* Lines 73-82: the group's members located in the zone.
getTargetZoneFlashNodeHosts(g, targetZone) ==
    {n \in flashNodes[g] : ZoneName(n) = targetZone}

\* Lines 389-409: parse the request, look the group up and start the
\* single-node or the zone-based release.
flashGroupRemoveFlashNode(p) ==
    /\ pc[p] = "idle"
    /\ budget > 0
    /\ \E id \in GroupIDs :
         \/ /\ ~getFlashGroup(id)
            /\ loc' = [loc EXCEPT ![p] = [BlankLoc EXCEPT !.op = "remove", !.flashGroup = id,
                                                           !.err = "NotFound"]]
            /\ pc' = [pc EXCEPT ![p] = "done"]
         \/ /\ getFlashGroup(id)
            /\ \E addr \in Nodes \cup {UnknownAddr} :
                 loc' = [loc EXCEPT ![p] = [BlankLoc EXCEPT !.op = "removeNode",
                                                         !.flashGroup = id, !.addr = addr]]
            /\ pc' = [pc EXCEPT ![p] = "rm_set"]
         \/ /\ getFlashGroup(id)
            /\ \E zoneName \in Zones \cup {UnknownZone}, count \in 0..MaxCount :
                 loc' = [loc EXCEPT ![p] = [BlankLoc EXCEPT !.op = "removeZone",
                              !.flashGroup = id, !.zoneName = zoneName, !.count = count]]
            /\ pc' = [pc EXCEPT ![p] = "rz_hosts"]
    /\ budget' = budget - 1
    /\ UNCHANGED <<topoVars, nodeVars, eff>>

\* Lines 428-433: list the group's members in the zone (under the read lock,
\* in map order) and give up when they are fewer than count.
removeFlashNodesFromTargetZone(p) ==
    LET l == loc[p]
        found == getTargetZoneFlashNodeHosts(l.flashGroup, l.zoneName)
    IN
    /\ pc[p] = "rz_hosts"
    /\ fgLock[l.flashGroup] = NoProc
    /\ IF Cardinality(found) < l.count
       THEN /\ loc' = [loc EXCEPT ![p].err = "TooFewHosts"]
            /\ pc' = [pc EXCEPT ![p] = "rm_reply"]
       ELSE \E flashNodeHosts \in Arrangements(found, Cardinality(found)) :
              IF flashNodeHosts = <<>>
              THEN /\ pc' = [pc EXCEPT ![p] = "rm_reply"]
                   /\ UNCHANGED loc
              ELSE /\ loc' = [loc EXCEPT ![p].hosts = flashNodeHosts, ![p].i = 1,
                                         ![p].addr = flashNodeHosts[1]]
                   /\ pc' = [pc EXCEPT ![p] = "rm_set"]
    /\ UNCHANGED <<topoVars, nodeVars, eff, budget>>

\* Lines 410-414: an error is replied at once; a success rebuilds the client cache.
flashGroupRemoveFlashNode_reply(p) ==
    /\ pc[p] = "rm_reply"
    /\ IF loc[p].err # Nil
       THEN /\ pc' = [pc EXCEPT ![p] = "done"]
            /\ UNCHANGED <<clientUpdateCh, eff>>
       ELSE /\ updateClientCache(p)
            /\ pc' = [pc EXCEPT ![p] = "rm_view"]
    /\ UNCHANGED <<flashGroupMap, Status, flashNodes, fgLock, groupStore, slotVars,
                   clientCache, clientOff, updater, nodeVars, loc, budget>>

\* Lines 415 and 127-141: the reply's admin view, read under the group's read lock.
flashGroupRemoveFlashNode_view(p) ==
    /\ pc[p] = "rm_view"
    /\ fgLock[loc[p].flashGroup] = NoProc
    /\ pc' = [pc EXCEPT ![p] = "done"]
    /\ UNCHANGED <<topoVars, nodeVars, loc, eff, budget>>


\* --------------------------------------------------- remove-group handler
\* Lines 197-212: parse the ID and look the group up.
removeFlashGroup(p) ==
    /\ pc[p] = "idle"
    /\ budget > 0
    /\ \E id \in GroupIDs :
         IF ~getFlashGroup(id)
         THEN /\ loc' = [loc EXCEPT ![p] = [BlankLoc EXCEPT !.op = "removeGroup",
                                               !.flashGroup = id, !.err = "NotFound"]]
              /\ pc' = [pc EXCEPT ![p] = "done"]
         ELSE /\ loc' = [loc EXCEPT ![p] = [BlankLoc EXCEPT !.op = "removeGroup",
                                                             !.flashGroup = id]]
              /\ pc' = [pc EXCEPT ![p] = "rg_cap"]
    /\ budget' = budget - 1
    /\ UNCHANGED <<topoVars, nodeVars, eff>>

\* Lines 84-95: the addresses of the group's members, all of them or (with
\* checkStatus) only those of the active nodes.
getFlashNodeHosts(g, checkStatus) ==
    {n \in flashNodes[g] : ~checkStatus \/ IsActive[n]}

\* The listing of line 224 left out: no member is released before the deletion.
evictionHosts_none(g) == {}

\* Line 224: the hosts the group removal releases, every member of the group.
evictionHosts(g) == getFlashNodeHosts(g, FALSE)

\* Line 85: the host list is made with the member map's length as its
\* capacity; the length is read before the read lock is taken at line 86.
getFlashNodeHosts_cap(p) ==
    /\ pc[p] = "rg_cap"
    /\ loc' = [loc EXCEPT ![p].count = Cardinality(flashNodes[loc[p].flashGroup])]
    /\ pc' = [pc EXCEPT ![p] = "rg_hosts"]
    /\ UNCHANGED <<topoVars, nodeVars, eff, budget>>

\* Lines 222-225 and 86-95: list every member of the group (under the read
\* lock, in map order); with no member the registry removal comes next.
removeFlashGroup_hosts(p) ==
    LET g == loc[p].flashGroup IN
    /\ pc[p] = "rg_hosts"
    /\ fgLock[g] = NoProc
    /\ \E flashNodeHosts \in Arrangements(evictionHosts(g), Cardinality(evictionHosts(g))) :
         IF flashNodeHosts = <<>>
         THEN /\ pc' = [pc EXCEPT ![p] = "rg_topo"]
              /\ UNCHANGED loc
         ELSE /\ loc' = [loc EXCEPT ![p].hosts = flashNodeHosts, ![p].i = 1,
                                    ![p].addr = flashNodeHosts[1]]
              /\ pc' = [pc EXCEPT ![p] = "rm_set"]
    /\ UNCHANGED <<topoVars, nodeVars, eff, budget>>

\* flashNodeTopo.removeFlashGroup, first half (called at line 234): the group
\* must have no member; the group-delete record is submitted to the sink.
topoRemoveFlashGroup_sync(p) ==
    LET g == loc[p].flashGroup IN
    /\ pc[p] = "rg_topo"
    /\ fgLock[g] = NoProc
    /\ \E accepted \in BOOLEAN :
         IF flashNodes[g] # {}
         THEN /\ accepted = FALSE
              /\ loc' = [loc EXCEPT ![p].err = "Precondition"]
              /\ pc' = [pc EXCEPT ![p] = "rg_reply"]
              /\ UNCHANGED <<groupStore, eff>>
         ELSE IF accepted
         THEN /\ groupStore' = [groupStore EXCEPT ![g] = "deleted"]
              /\ eff' = [eff EXCEPT ![p].submits = @ + 1]
              /\ pc' = [pc EXCEPT ![p] = "rg_delete"]
              /\ UNCHANGED loc
         ELSE /\ loc' = [loc EXCEPT ![p].err = "Persistence"]
              /\ eff' = [eff EXCEPT ![p].submits = @ + 1]
              /\ pc' = [pc EXCEPT ![p] = "rg_reply"]
              /\ UNCHANGED groupStore
    /\ UNCHANGED <<flashGroupMap, Status, flashNodes, fgLock, slotVars, cacheVars, nodeVars, budget>>

\* flashNodeTopo.removeFlashGroup, second half: the accepted deletion takes the
\* group out of the registry.
topoRemoveFlashGroup_delete(p) ==
    /\ pc[p] = "rg_delete"
    /\ flashGroupMap' = flashGroupMap \ {loc[p].flashGroup}
    /\ eff' = [eff EXCEPT ![p].deleted = TRUE]
    /\ pc' = [pc EXCEPT ![p] = "rg_reply"]
    /\ UNCHANGED <<Status, flashNodes, fgLock, groupStore, slotVars, cacheVars, nodeVars, loc, budget>>

\* Lines 213-217: an error is replied at once; a success rebuilds the client cache.
removeFlashGroup_reply(p) ==
    /\ pc[p] = "rg_reply"
    /\ IF loc[p].err # Nil
       THEN /\ pc' = [pc EXCEPT ![p] = "done"]
            /\ UNCHANGED <<clientUpdateCh, eff>>
       ELSE /\ updateClientCache(p)
            /\ pc' = [pc EXCEPT ![p] = "rg_view"]
    /\ UNCHANGED <<flashGroupMap, Status, flashNodes, fgLock, groupStore, slotVars,
                   clientCache, clientOff, updater, nodeVars, loc, budget>>

\* Lines 218-219 and 97-102: the reply's node count, read under the group's read lock.
removeFlashGroup_view(p) ==
    /\ pc[p] = "rg_view"
    /\ fgLock[loc[p].flashGroup] = NoProc
    /\ pc' = [pc EXCEPT ![p] = "done"]
    /\ UNCHANGED <<topoVars, nodeVars, loc, eff, budget>>

\* ----------------------------------------------------- set-status handler
\* Line 550-555: the boolean argument as a status.
argConvertFlashGroupStatus(active) == IF active THEN Active ELSE Inactive

\* The comparison of line 270 inverted into never: no request counts as a change.
statusChanged_never(oldStatus, fgStatus) == FALSE

\* The comparison of line 270 left out: every request counts as a change.
statusChanged_always(oldStatus, fgStatus) == TRUE

\* Line 270: the request changes the status.
statusChanged(oldStatus, fgStatus) == oldStatus # fgStatus

\* Line 272: the status the group gets back when the sink rejects the record.
restoredStatus(p) == loc[p].oldStatus

\* Lines 241-269: parse the request, look the group up, take its write lock,
\* remember the old status and write the new one.
setFlashGroup(p) ==
    /\ pc[p] = "idle"
    /\ budget > 0
    /\ \E id \in GroupIDs, active \in BOOLEAN :
         IF ~getFlashGroup(id)
         THEN /\ loc' = [loc EXCEPT ![p] = [BlankLoc EXCEPT !.op = "setStatus",
                           !.flashGroup = id, !.err = "NotFound"]]
              /\ pc' = [pc EXCEPT ![p] = "done"]
         ELSE /\ loc' = [loc EXCEPT ![p] = [BlankLoc EXCEPT !.op = "setStatus",
                           !.flashGroup = id, !.fgStatus = argConvertFlashGroupStatus(active)]]
              /\ pc' = [pc EXCEPT ![p] = "sg_lock"]
    /\ budget' = budget - 1
    /\ UNCHANGED <<topoVars, nodeVars, eff>>

\* Lines 267-270: take the write lock, remember the old status, write the new one.
setFlashGroup_lock(p) ==
    LET g == loc[p].flashGroup IN
    /\ pc[p] = "sg_lock"
    /\ fgLock[g] = NoProc
    /\ fgLock' = [fgLock EXCEPT ![g] = p]
    /\ loc' = [loc EXCEPT ![p].oldStatus = Status[g]]
    /\ Status' = [Status EXCEPT ![g] = loc[p].fgStatus]
    /\ pc' = [pc EXCEPT ![p] = IF statusChanged(Status[g], loc[p].fgStatus)
                               THEN "sg_sync" ELSE "sg_unlock"]
    /\ UNCHANGED <<flashGroupMap, flashNodes, groupStore, slotVars, cacheVars, nodeVars, eff, budget>>

\* Lines 271-276: syncUpdateFlashGroup; a rejection restores the status.
setFlashGroup_sync(p) ==
    LET g == loc[p].flashGroup IN
    /\ pc[p] = "sg_sync"
    /\ \E accepted \in BOOLEAN :
         IF accepted
         THEN /\ groupStore' = [groupStore EXCEPT ![g] = Status[g]]
              /\ pc' = [pc EXCEPT ![p] = "sg_rebuild"]
              /\ UNCHANGED <<Status, loc>>
         ELSE /\ Status' = [Status EXCEPT ![g] = restoredStatus(p)]
              /\ loc' = [loc EXCEPT ![p].err = "Persistence"]
              /\ pc' = [pc EXCEPT ![p] = "sg_unlock"]
              /\ UNCHANGED groupStore
    /\ eff' = [eff EXCEPT ![p].submits = @ + 1]
    /\ UNCHANGED <<flashGroupMap, flashNodes, fgLock, slotVars, cacheVars, nodeVars, budget>>

\* Line 277: the rebuild after an accepted status change, the write lock still held.
setFlashGroup_rebuild(p) ==
    /\ pc[p] = "sg_rebuild"
    /\ updateClientCache(p)
    /\ pc' = [pc EXCEPT ![p] = "sg_unlock"]
    /\ UNCHANGED <<flashGroupMap, Status, flashNodes, fgLock, groupStore, slotVars,
                   clientCache, clientOff, updater, nodeVars, loc, budget>>

\* The unlocks of lines 273 and 279 left out: the handler keeps the write lock.
unlockedFlashGroup_held(p) == p

\* Lines 273 and 279: the holder of the group's write lock once the handler
\* has unlocked it, nobody.
unlockedFlashGroup(p) == NoProc

\* Lines 273-275 and 279: release the write lock; an error is replied at once.
setFlashGroup_unlock(p) ==
    /\ pc[p] = "sg_unlock"
    /\ fgLock' = [fgLock EXCEPT ![loc[p].flashGroup] = unlockedFlashGroup(p)]
    /\ pc' = [pc EXCEPT ![p] = IF loc[p].err # Nil THEN "done" ELSE "sg_view"]
    /\ UNCHANGED <<flashGroupMap, Status, flashNodes, groupStore, slotVars, cacheVars, nodeVars,
                   loc, eff, budget>>

\* Lines 281 and 127-141: the reply's admin view, read under the group's read lock.
setFlashGroup_view(p) ==
    /\ pc[p] = "sg_view"
    /\ fgLock[loc[p].flashGroup] = NoProc
    /\ pc' = [pc EXCEPT ![p] = "done"]
    /\ UNCHANGED <<topoVars, nodeVars, loc, eff, budget>>

\* ------------------------------------------------------ get-group handler
\* Lines 284-301: parse the ID and look the group up.
getFlashGroup_request(p) ==
    /\ pc[p] = "idle"
    /\ budget > 0
    /\ \E id \in GroupIDs :
         IF ~getFlashGroup(id)
         THEN /\ loc' = [loc EXCEPT ![p] = [BlankLoc EXCEPT !.op = "getGroup",
                                               !.flashGroup = id, !.err = "NotFound"]]
              /\ pc' = [pc EXCEPT ![p] = "done"]
         ELSE /\ loc' = [loc EXCEPT ![p] = [BlankLoc EXCEPT !.op = "getGroup",
                                                             !.flashGroup = id]]
              /\ pc' = [pc EXCEPT ![p] = "gg_view"]
    /\ budget' = budget - 1
    /\ UNCHANGED <<topoVars, nodeVars, eff>>

\* Lines 302 and 127-141: the reply's admin view, read under the group's read lock.
getFlashGroup_view(p) ==
    /\ pc[p] = "gg_view"
    /\ fgLock[loc[p].flashGroup] = NoProc
    /\ pc' = [pc EXCEPT ![p] = "done"]
    /\ UNCHANGED <<topoVars, nodeVars, loc, eff, budget>>

\* --------------------------------------------------- create-group handler
\* Ring positions, scaled down from the CRC32 domain.
SlotValues == 1..6
\* A token of the slots parameter that strconv.ParseUint rejects.
BadToken == -1
\* The most slots a group owns, scaled down.
defaultFlashGroupSlotsCount == 2

\* The slots parameters a request comes with, split at the commas: none, one
\* slot, a slot twice, a slot some group owns, a token that is no number, and
\* more slots than a group may own.
SlotRequests == {<<>>, <<3>>, <<3, 3>>, <<1, 3>>, <<BadToken, 4>>, <<3, 4, 5>>}

RECURSIVE getSetSlotsFrom(_, _, _)
\* Lines 515-524: the loop over the tokens from the i-th on, slots collected so far.
getSetSlotsFrom(arr, i, slots) ==
    IF i > Len(arr) THEN slots
    ELSE IF arr[i] = BadToken THEN getSetSlotsFrom(arr, i + 1, slots)
    ELSE IF Len(slots) >= defaultFlashGroupSlotsCount THEN slots
    ELSE getSetSlotsFrom(arr, i + 1, Append(slots, arr[i]))

\* Lines 509-527: the slots a request asks for.
getSetSlots(arr) == getSetSlotsFrom(arr, 1, <<>>)

\* The slots some registered group owns.
ownedSlots == UNION {Range(Slots[g]) : g \in flashGroupMap}

RECURSIVE validSlots(_, _)
\* flashNodeTopo.createFlashGroup's validation: the requested slots without
\* those already owned (or, in the set taken, already listed).
validSlots(setSlots, taken) ==
    IF setSlots = <<>> THEN <<>>
    ELSE IF Head(setSlots) \in taken THEN validSlots(Tail(setSlots), taken)
    ELSE <<Head(setSlots)>> \o validSlots(Tail(setSlots), taken \cup {Head(setSlots)})

\* flashNodeTopo.createFlashGroup's allocation: a fresh batch of ring
\* positions that no group owns, in ascending order.
newSlots(taken) ==
    {s \in Arrangements(SlotValues \ taken, defaultFlashGroupSlotsCount) :
        \A i \in 1..(Len(s) - 1) : s[i] < s[i + 1]}

\* Lines 164-171 and 179-188: parse the slots and allocate the group's ID.
createFlashGroup(p) ==
    /\ pc[p] = "idle"
    /\ budget > 0
    /\ \E arr \in SlotRequests, allocated \in BOOLEAN :
         IF allocated
         THEN /\ commonID' = commonID + 1
              /\ loc' = [loc EXCEPT ![p] = [BlankLoc EXCEPT !.op = "createGroup",
                            !.flashGroup = commonID + 1, !.slots = getSetSlots(arr)]]
              /\ pc' = [pc EXCEPT ![p] = "cg_sync"]
         ELSE /\ loc' = [loc EXCEPT ![p] = [BlankLoc EXCEPT !.op = "createGroup",
                            !.err = "Persistence"]]
              /\ pc' = [pc EXCEPT ![p] = "cg_reply"]
              /\ UNCHANGED commonID
    /\ budget' = budget - 1
    /\ UNCHANGED <<flashGroupMap, Status, flashNodes, fgLock, groupStore, Slots, cacheVars,
                   nodeVars, eff>>

\* flashNodeTopo.createFlashGroup, first half (called at line 189): validate
\* the requested slots or allocate fresh ones, and submit the group-add record
\* of the new, inactive group.
topoCreateFlashGroup_sync(p) ==
    LET g == loc[p].flashGroup
        asked == validSlots(loc[p].slots, ownedSlots)
    IN
    /\ pc[p] = "cg_sync"
    /\ \E accepted \in BOOLEAN :
         IF asked = <<>> /\ newSlots(ownedSlots) = {}
         THEN /\ accepted = FALSE
              /\ loc' = [loc EXCEPT ![p].err = "Allocation"]
              /\ pc' = [pc EXCEPT ![p] = "cg_reply"]
              /\ UNCHANGED <<groupStore, eff>>
         ELSE \E slots \in (IF asked # <<>> THEN {asked} ELSE newSlots(ownedSlots)) :
                IF accepted
                THEN /\ groupStore' = [groupStore EXCEPT ![g] = Inactive]
                     /\ loc' = [loc EXCEPT ![p].slots = slots]
                     /\ eff' = [eff EXCEPT ![p].submits = @ + 1]
                     /\ pc' = [pc EXCEPT ![p] = "cg_insert"]
                ELSE /\ loc' = [loc EXCEPT ![p].slots = slots, ![p].err = "Persistence"]
                     /\ eff' = [eff EXCEPT ![p].submits = @ + 1]
                     /\ pc' = [pc EXCEPT ![p] = "cg_reply"]
                     /\ UNCHANGED groupStore
    /\ UNCHANGED <<flashGroupMap, Status, flashNodes, fgLock, slotVars, cacheVars,
                   nodeVars, budget>>

\* flashNodeTopo.createFlashGroup, second half: the accepted group goes into
\* the registry, under the registry's lock.
topoCreateFlashGroup_insert(p) ==
    LET g == loc[p].flashGroup IN
    /\ pc[p] = "cg_insert"
    /\ flashGroupMap' = flashGroupMap \cup {g}
    /\ Slots' = [Slots EXCEPT ![g] = loc[p].slots]
    /\ Status' = [Status EXCEPT ![g] = Inactive]
    /\ flashNodes' = [flashNodes EXCEPT ![g] = {}]
    /\ pc' = [pc EXCEPT ![p] = "cg_reply"]
    /\ UNCHANGED <<fgLock, groupStore, commonID, cacheVars, nodeVars, loc, eff, budget>>

\* Lines 189-192 and 172-175: an error is replied at once; a success requests
\* the rebuild of the client cache.
createFlashGroup_reply(p) ==
    /\ pc[p] = "cg_reply"
    /\ IF loc[p].err # Nil
       THEN /\ pc' = [pc EXCEPT ![p] = "done"]
            /\ UNCHANGED <<clientUpdateCh, eff>>
       ELSE /\ updateClientCache(p)
            /\ pc' = [pc EXCEPT ![p] = "cg_view"]
    /\ UNCHANGED <<flashGroupMap, Status, flashNodes, fgLock, groupStore, slotVars,
                   clientCache, clientOff, updater, nodeVars, loc, budget>>

\* Lines 176 and 127-141: the reply's admin view, read under the group's read lock.
createFlashGroup_view(p) ==
    /\ pc[p] = "cg_view"
    /\ fgLock[loc[p].flashGroup] = NoProc
    /\ pc' = [pc EXCEPT ![p] = "done"]
    /\ UNCHANGED <<topoVars, nodeVars, loc, eff, budget>>

\* ------------------------------------------------- the snapshot's rebuild
\* A requested rebuild begins: the request is taken and the registry is ranged over.
updateClientResponse_begin ==
    /\ clientUpdateCh
    /\ ~updater.busy
    /\ clientUpdateCh' = FALSE
    /\ updater' = [busy |-> TRUE, todo |-> flashGroupMap, view |-> {}]
    /\ UNCHANGED <<flashGroupMap, Status, flashNodes, fgLock, groupStore, slotVars,
                   clientCache, clientOff, nodeVars, pc, loc, eff, budget>>

\* The rebuild reads one group, in whatever order the registry yields them,
\* under that group's read lock (lines 45-50 and 84-95) and no other lock.
updateClientResponse_read ==
    /\ updater.busy
    /\ \E g \in updater.todo :
         /\ fgLock[g] = NoProc
         /\ updater' = [updater EXCEPT !.todo = @ \ {g}, !.view = @ \cup clientView(g)]
    /\ UNCHANGED <<flashGroupMap, Status, flashNodes, fgLock, groupStore, slotVars,
                   clientCache, clientOff, clientUpdateCh, nodeVars, pc, loc, eff, budget>>

\* The rebuild swaps the view it has built for the published snapshot.
updateClientResponse_store ==
    /\ updater.busy
    /\ updater.todo = {}
    /\ clientCache' = updater.view
    /\ updater' = IdleUpdater
    /\ UNCHANGED <<flashGroupMap, Status, flashNodes, fgLock, groupStore, slotVars,
                   clientOff, clientUpdateCh, nodeVars, pc, loc, eff, budget>>

\* ------------------------------------------ serving toggle, client topology
\* The response flashNodeTopo.clientEmpty holds: a topology of no group.
clientEmpty == {}

\* flashNodeTopo.getClientResponse: the empty response while serving is
\* off, the published snapshot otherwise.
getClientResponse == IF clientOff THEN clientEmpty ELSE clientCache

\* Line 157 storing the empty response as line 159 does.
clientOffFor_inverted(enabled) == enabled

\* Lines 156-160: what clientOff holds after the toggle, the empty response
\* when serving is turned off and nothing when it is turned on.
clientOffFor(enabled) == ~enabled

\* Lines 143-162: set-serving-enabled; only clientOff is written.
turnFlashGroup(p) ==
    /\ pc[p] = "idle"
    /\ budget > 0
    /\ \E enabled \in BOOLEAN :
         /\ clientOff' = clientOffFor(enabled)
         /\ loc' = [loc EXCEPT ![p] = [BlankLoc EXCEPT !.op = "turn", !.enabled = enabled]]
    /\ pc' = [pc EXCEPT ![p] = "done"]
    /\ budget' = budget - 1
    /\ UNCHANGED <<flashGroupMap, Status, flashNodes, fgLock, groupStore, slotVars,
                   clientCache, clientUpdateCh, updater, nodeVars, eff>>

\* Lines 495-507: get-client-topology; one lock-free load of the response.
\* The snapshot was published when the master started, so the response is
\* never the missing one of lines 502-505.
clientFlashGroups(p) ==
    /\ pc[p] = "idle"
    /\ budget > 0
    /\ loc' = [loc EXCEPT ![p] = [BlankLoc EXCEPT !.op = "client",
                                     !.enabled = ~clientOff, !.cache = getClientResponse]]
    /\ pc' = [pc EXCEPT ![p] = "done"]
    /\ budget' = budget - 1
    /\ UNCHANGED <<topoVars, nodeVars, eff>>

\* ------------------------------------------------------------ the system
\* The reply is out: the worker is free for its next request.
Return(p) ==
    /\ pc[p] = "done"
    /\ pc' = [pc EXCEPT ![p] = "idle"]
    /\ loc' = [loc EXCEPT ![p] = BlankLoc]
    /\ eff' = [eff EXCEPT ![p] = BlankEff]
    /\ UNCHANGED <<topoVars, nodeVars, budget>>

Handlers ==
    \E p \in Procs :
        \/ flashGroupAddFlashNode(p)
        \/ selectFlashNodesFromZoneAddToFlashGroup(p)
        \/ setFlashNodeToFlashGroup(p)
        \/ setFlashNodeToFlashGroup_sync(p)
        \/ putFlashNode(p)
        \/ flashGroupAddFlashNode_reply(p)
        \/ flashGroupAddFlashNode_view(p)
        \/ flashGroupRemoveFlashNode(p)
        \/ removeFlashNodesFromTargetZone(p)
        \/ setFlashNodeToUnused(p)
        \/ setFlashNodeToUnused_sync(p)
        \/ removeFlashNode(p)
        \/ flashGroupRemoveFlashNode_reply(p)
        \/ flashGroupRemoveFlashNode_view(p)
        \/ removeFlashGroup(p)
        \/ getFlashNodeHosts_cap(p)
        \/ removeFlashGroup_hosts(p)
        \/ topoRemoveFlashGroup_sync(p)
        \/ topoRemoveFlashGroup_delete(p)
        \/ removeFlashGroup_reply(p)
        \/ removeFlashGroup_view(p)
        \/ setFlashGroup(p)
        \/ setFlashGroup_lock(p)
        \/ setFlashGroup_sync(p)
        \/ setFlashGroup_rebuild(p)
        \/ setFlashGroup_unlock(p)
        \/ setFlashGroup_view(p)
        \/ getFlashGroup_request(p)
        \/ getFlashGroup_view(p)
        \/ createFlashGroup(p)
        \/ topoCreateFlashGroup_sync(p)
        \/ topoCreateFlashGroup_insert(p)
        \/ createFlashGroup_reply(p)
        \/ createFlashGroup_view(p)
        \/ turnFlashGroup(p)
        \/ clientFlashGroups(p)
        \/ Return(p)

Next ==
    \/ Handlers
    \/ updateClientResponse_begin
    \/ updateClientResponse_read
    \/ updateClientResponse_store

Spec == Init /\ [][Next]_vars

\* The add-node and remove-node handlers alone, with one more request to
\* take up: the runs in which a node is assigned, released and assigned again
\* while an earlier call is still under way.
MembershipInit == Start(MaxRequests + 1)

MembershipNext ==
    \E p \in Procs :
        \/ flashGroupAddFlashNode(p)
        \/ selectFlashNodesFromZoneAddToFlashGroup(p)
        \/ setFlashNodeToFlashGroup(p)
        \/ setFlashNodeToFlashGroup_sync(p)
        \/ putFlashNode(p)
        \/ flashGroupAddFlashNode_reply(p)
        \/ flashGroupAddFlashNode_view(p)
        \/ flashGroupRemoveFlashNode(p)
        \/ removeFlashNodesFromTargetZone(p)
        \/ setFlashNodeToUnused(p)
        \/ setFlashNodeToUnused_sync(p)
        \/ removeFlashNode(p)
        \/ flashGroupRemoveFlashNode_reply(p)
        \/ flashGroupRemoveFlashNode_view(p)
        \/ Return(p)

MembershipSpec == MembershipInit /\ [][MembershipNext]_vars

\* The set-status and get-group handlers of one worker.
StatusHandler(p) ==
    \/ setFlashGroup(p)
    \/ setFlashGroup_lock(p)
    \/ setFlashGroup_sync(p)
    \/ setFlashGroup_rebuild(p)
    \/ setFlashGroup_unlock(p)
    \/ setFlashGroup_view(p)
    \/ getFlashGroup_request(p)
    \/ getFlashGroup_view(p)
    \/ Return(p)

\* The rebuild of the client cache.
updateClientResponse ==
    \/ updateClientResponse_begin
    \/ updateClientResponse_read
    \/ updateClientResponse_store

StatusNext ==
    \/ \E p \in Procs : StatusHandler(p)
    \/ updateClientResponse

\* The set-status and get-group handlers with the rebuild, under the
\* scheduler's fairness: a goroutine that can take a step is not held back
\* forever, and a call to the sink returns.
StatusSpec ==
    /\ Init
    /\ [][StatusNext]_vars
    /\ \A p \in Procs : WF_vars(StatusHandler(p))
    /\ WF_vars(updateClientResponse)

\* ================================================================ claims
Done(p) == pc[p] = "done"

\* Every call has returned: no worker stands inside a handler.
AllAtRest == \A p \in Procs : pc[p] \in {"idle", "done"}

\* The worker's step out of the place `at`.
StepsFrom(p, at) == pc[p] = at /\ pc'[p] # at

\* C1: for all nodes N and groups G, if N is in G's member map then N's
\* assigned-group field equals G's ID and N's last persisted record carries
\* that ID. Stated here for the states in which every call has returned, which
\* the claim includes: a violation there is no window inside a call.
C1_MemberIsAssignedAndPersisted ==
    AllAtRest =>
        \A n \in Nodes, g \in GroupIDs :
            n \in flashNodes[g] => FlashGroupID[n] = g /\ nodeStore[n] = g

\* C2: a node's assigned-group field is the unassigned sentinel or the ID of a
\* group in the registry; after a group's removal no node's field names it.
\* Stated for the states in which every call has returned.
C2_AssignedGroupIsRegistered ==
    AllAtRest =>
        \A n \in Nodes :
            FlashGroupID[n] = unusedFlashNodeFlashGroupID \/ FlashGroupID[n] \in flashGroupMap

\* The state a single-node call may change: the nodes' fields and liveness
\* flags, the member maps, the sink's records, and the call's own history.
callEffects == <<FlashGroupID, IsActive, flashNodes, nodeStore, groupStore, eff>>

\* C3: addFlashNodeToFlashGroup on a node whose assigned-group field is not
\* the sentinel (it names the target group or another one) returns an error,
\* submits nothing to the sink and leaves the field and every member map
\* unchanged.
C3_AddToAssignedNodeIsRefused ==
    [][\A p \in Procs :
          (/\ StepsFrom(p, "add_set")
           /\ peekFlashNode(loc[p].addr)
           /\ FlashGroupID[loc[p].addr] # unusedFlashNodeFlashGroupID)
          => /\ pc'[p] = "add_reply"
             /\ loc'[p].err = "Conflict"
             /\ loc'[p].successHost = loc[p].successHost
             /\ UNCHANGED callEffects]_vars

\* C3's case: two single-node adds of the assigned node n1 have been refused,
\* one into the group it belongs to and one into another group, and neither
\* has submitted or written anything.
C3_Witness ==
    \E p, q \in Procs :
        /\ Done(p) /\ Done(q)
        /\ loc[p].op = "addNode" /\ loc[q].op = "addNode"
        /\ loc[p].err = "Conflict" /\ loc[q].err = "Conflict"
        /\ loc[p].addr = loc[q].addr
        /\ FlashGroupID[loc[p].addr] = loc[p].flashGroup
        /\ FlashGroupID[loc[q].addr] # loc[q].flashGroup
        /\ eff[p] = BlankEff /\ eff[q] = BlankEff

\* C4: removeFlashNodeFromFlashGroup(addr, G) on a node whose field differs
\* from G's ID (unassigned, or assigned to another group) returns an error and
\* is a no-op; and a release that the sink accepts leaves the field different
\* from G's ID, so that a second release of the node from G is refused.
C4_ReleaseFromOtherGroupIsRefused ==
    [][\A p \in Procs :
          /\ (/\ StepsFrom(p, "rm_set")
              /\ peekFlashNode(loc[p].addr)
              /\ FlashGroupID[loc[p].addr] # loc[p].flashGroup)
             => /\ pc'[p] \in {"rm_reply", "rg_reply"}
                /\ loc'[p].err = "Conflict"
                /\ loc'[p].successHost = loc[p].successHost
                /\ UNCHANGED callEffects
          /\ (StepsFrom(p, "rm_sync") /\ pc'[p] = "rm_del")
             => FlashGroupID'[loc[p].addr] # loc[p].flashGroup]_vars

\* C4's case: one worker has released a node from a group with success, and
\* the other worker's release of the same node from the same group has been
\* refused without submitting or writing anything.
C4_Witness ==
    \E p, q \in Procs :
        /\ Done(p) /\ Done(q)
        /\ loc[p].op = "removeNode" /\ loc[q].op = "removeNode"
        /\ loc[p].addr = loc[q].addr /\ loc[p].flashGroup = loc[q].flashGroup
        /\ loc[p].err = Nil /\ eff[p].committed = <<loc[p].addr>>
        /\ loc[q].err = "Conflict" /\ eff[q] = BlankEff
        /\ FlashGroupID[loc[q].addr] = unusedFlashNodeFlashGroupID

\* C5: when the sink rejects the record of an assign or a release, the call
\* returns an error with the field restored to its value before the call and
\* the member map unchanged; hence whenever a node's lock is free, its field
\* equals the value of its last accepted record.
C5_FieldMatchesStoreWhenUnlocked ==
    /\ \A n \in Nodes : nodeLock[n] = NoProc => FlashGroupID[n] = nodeStore[n]
    /\ \A p \in Procs :
         pc[p] \in {"add_sync", "rm_sync"} =>
            /\ nodeLock[loc[p].addr] = p
            /\ nodeStore[loc[p].addr] = loc[p].oldFgID
    /\ \A p \in Procs :
         (Done(p) /\ loc[p].op \in {"addNode", "removeNode"} /\ loc[p].err = "Persistence")
            => eff[p].committed = <<>> /\ eff[p].mapped = {} /\ eff[p].submits = 1

\* C5's case: the sink has rejected the record of a single-node assign and the
\* call has returned; the node's lock is free and its field is back at the
\* value of its last accepted record.
C5_Witness ==
    \E p \in Procs :
        /\ Done(p)
        /\ loc[p].op = "addNode"
        /\ loc[p].err = "Persistence"
        /\ eff[p].wrote = {loc[p].addr}
        /\ nodeLock[loc[p].addr] = NoProc
        /\ FlashGroupID[loc[p].addr] = unusedFlashNodeFlashGroupID
        /\ nodeStore[loc[p].addr] = unusedFlashNodeFlashGroupID

\* The requests that work through a list of hosts.
BatchOps == {"addZone", "removeZone", "removeGroup"}

\* C6: after any batch operation finishes, whether it succeeded or failed
\* part-way after at least one host change was committed, a client-cache
\* rebuild is triggered before the handler replies.
C6_BatchReplyFollowsRebuild ==
    \A p \in Procs :
        (Done(p) /\ loc[p].op \in BatchOps /\ eff[p].committed # <<>>)
            => eff[p].rebuilds >= 1

\* C7: a batch operation works through its hosts one after another and stops
\* at the first host that fails: the hosts before the failing one are committed
\* (record accepted, member map updated), the failing host and the hosts after
\* it are not, and a group removal does not delete the group.
C7_BatchStopsAtFirstFailure ==
    \A p \in Procs :
        LET l == loc[p]
            k == Len(l.successHost)
        IN  /\ (Done(p) /\ l.op \in BatchOps /\ l.err # Nil /\ k < Len(l.hosts))
               => /\ l.successHost = SubSeq(l.hosts, 1, k)
                  /\ l.addr = l.hosts[k + 1]
                  /\ eff[p].committed = l.successHost
                  /\ eff[p].mapped = Range(l.successHost)
                  /\ eff[p].wrote \subseteq Range(l.successHost) \cup {l.addr}
                  /\ eff[p].submits <= k + 1
                  /\ nodeLock[l.addr] # p
            /\ (Done(p) /\ l.op = "removeGroup" /\ l.err # Nil)
               => eff[p].deleted = FALSE

\* C7's case: a group removal has released the first of the group's two
\* members and failed at the second; the group is still registered.
C7_Witness ==
    \E p \in Procs :
        /\ Done(p)
        /\ loc[p].op = "removeGroup"
        /\ loc[p].err = "Persistence"
        /\ Len(loc[p].hosts) = 2
        /\ loc[p].successHost = <<loc[p].hosts[1]>>
        /\ eff[p].committed = loc[p].successHost
        /\ getFlashGroup(loc[p].flashGroup)

\* C8: a zone-based add that asks for more nodes than the zone has eligible
\* (active, unassigned, not excluded) fails with an insufficient-capacity
\* error and assigns no node: no field changes, nothing is persisted and no
\* member map changes.
C8_ZoneAddIsAllOrNothing ==
    /\ [][\A p \in Procs :
            (/\ StepsFrom(p, "az_select")
             /\ getZone(loc[p].zoneName)
             /\ loc[p].count > Cardinality({n \in Nodes :
                                   /\ ZoneName(n) = loc[p].zoneName
                                   /\ IsActive[n]
                                   /\ FlashGroupID[n] = unusedFlashNodeFlashGroupID}))
            => /\ pc'[p] = "add_reply"
               /\ loc'[p].err = "InsufficientCapacity"
               /\ loc'[p].hosts = <<>>
               /\ UNCHANGED callEffects]_vars
    /\ [](\A p \in Procs :
            (pc[p] \in {"add_reply", "done"} /\ loc[p].err = "InsufficientCapacity")
                => eff[p] = BlankEff)

\* C8's case: a zone-based add for two nodes into a zone with one eligible
\* node has failed, and the request has assigned, persisted and mapped nothing.
C8_Witness ==
    \E p \in Procs :
        /\ Done(p)
        /\ loc[p].op = "addZone"
        /\ loc[p].err = "InsufficientCapacity"
        /\ loc[p].count = 2
        /\ Cardinality(eligibleFlashNodes(loc[p].zoneName, {})) = 1
        /\ eff[p] = BlankEff

\* C9 as claimed: removing a group that still has members fails with a
\* precondition error and leaves the group, its member map and its members'
\* fields unchanged.
C9_NonEmptyGroupRemovalIsRefused ==
    \A p \in Procs :
        (Done(p) /\ loc[p].op = "removeGroup" /\ loc[p].hosts # <<>>)
            => loc[p].err = "Precondition" /\ eff[p] = BlankEff

\* C9 as amended: a group removal lists every member of the group and releases
\* them one by one before it deletes the group; a removal that succeeds has
\* released every listed member, had its delete record accepted and left the
\* group out of the registry, where a get-group for its ID fails with
\* not-found; a removal that fails has not deleted the group; and a group
\* leaves the registry only through a removal whose releases all succeeded.
C9_GroupRemovalEvictsThenDeletes ==
    /\ [](\A p \in Procs :
            /\ (Done(p) /\ loc[p].op = "removeGroup" /\ loc[p].err = Nil)
               => /\ ~getFlashGroup(loc[p].flashGroup)
                  /\ eff[p].deleted
                  /\ eff[p].committed = loc[p].hosts
                  /\ eff[p].submits = Len(loc[p].hosts) + 1
            /\ (Done(p) /\ loc[p].op = "removeGroup" /\ loc[p].err # Nil)
               => ~eff[p].deleted)
    /\ [][\A p \in Procs :
            /\ StepsFrom(p, "rg_hosts")
               => Range(loc'[p].hosts) = flashNodes[loc[p].flashGroup]
            /\ (StepsFrom(p, "idle") /\ loc'[p].op = "getGroup"
                    /\ loc'[p].flashGroup \notin flashGroupMap)
               => pc'[p] = "done" /\ loc'[p].err = "NotFound"
            /\ \A g \in flashGroupMap \ flashGroupMap' :
                  \E q \in Procs : /\ pc[q] = "rg_delete"
                                   /\ loc[q].flashGroup = g
                                   /\ eff[q].committed = loc[q].hosts]_vars

\* C9's case: a removal of a group with a member has released the member
\* and deleted the group, and a get-group for the group's ID has then failed
\* with not-found.
C9_Witness ==
    \E p, q \in Procs :
        /\ Done(p) /\ Done(q)
        /\ loc[p].op = "removeGroup" /\ loc[p].err = Nil
        /\ loc[p].hosts # <<>> /\ eff[p].committed = loc[p].hosts
        /\ loc[q].op = "getGroup" /\ loc[q].flashGroup = loc[p].flashGroup
        /\ loc[q].err = "NotFound"

\* C10: set-group-status. If the sink rejects the group-update record, the
\* group's status after the call equals its status before the call and no
\* rebuild is triggered; if the record is accepted, a rebuild is triggered
\* exactly when the new status differs from the old one; and when the
\* requested status equals the current one nothing is persisted or rebuilt.
C10_SetStatusPersistsAndRebuildsOnChange ==
    \A p \in Procs :
        LET l == loc[p]
            g == l.flashGroup
            changes == IF l.oldStatus # l.fgStatus THEN 1 ELSE 0
        IN  l.op = "setStatus" =>
            /\ (pc[p] = "sg_unlock" /\ l.err = "Persistence")
               => /\ Status[g] = l.oldStatus
                  /\ l.oldStatus # l.fgStatus
                  /\ eff[p].submits = 1
                  /\ eff[p].rebuilds = 0
            /\ (pc[p] = "sg_unlock" /\ l.err = Nil)
               => /\ Status[g] = l.fgStatus
                  /\ eff[p].submits = changes
                  /\ eff[p].rebuilds = changes
                  /\ (changes = 1 => groupStore[g] = l.fgStatus)
            /\ (Done(p) /\ l.err # Nil) => eff[p].rebuilds = 0
            /\ (pc[p] \in {"sg_view", "done"} /\ l.err = Nil)
               => eff[p].submits = changes /\ eff[p].rebuilds = changes

\* C10's case: the sink has rejected the record of a status change; the
\* write lock is still held, the status is back at its old value and no
\* rebuild has been triggered.
C10_Witness ==
    \E p \in Procs :
        /\ pc[p] = "sg_unlock"
        /\ loc[p].op = "setStatus"
        /\ loc[p].err = "Persistence"
        /\ loc[p].oldStatus # loc[p].fgStatus
        /\ Status[loc[p].flashGroup] = loc[p].oldStatus
        /\ fgLock[loc[p].flashGroup] = p
        /\ eff[p].rebuilds = 0

\* C11: while serving is disabled, get-client-topology returns the empty
\* response whatever the snapshot holds; the toggle writes the serving flag
\* and nothing of the snapshot or its rebuild; and while serving is enabled
\* get-client-topology returns the published snapshot, so that after a
\* disable and a re-enable with no rebuild in between it returns what it
\* returned before.
C11_ToggleHidesButKeepsSnapshot ==
    [][\A p \in Procs :
          /\ (StepsFrom(p, "idle") /\ loc'[p].op = "client")
             => /\ pc'[p] = "done"
                /\ (clientOff => loc'[p].cache = clientEmpty)
                /\ (~clientOff => loc'[p].cache = clientCache)
                /\ UNCHANGED <<clientCache, clientOff, clientUpdateCh, updater>>
          /\ (StepsFrom(p, "idle") /\ loc'[p].op = "turn")
             => /\ clientOff' = ~loc'[p].enabled
                /\ UNCHANGED <<clientCache, clientUpdateCh, updater>>]_vars

\* C11's case: serving has been turned off, and a get-client-topology has
\* got the empty response while the snapshot holds a group.
C11_Witness ==
    \E p, q \in Procs :
        /\ Done(p) /\ loc[p].op = "turn" /\ ~loc[p].enabled
        /\ Done(q) /\ loc[q].op = "client" /\ ~loc[q].enabled
        /\ loc[q].cache = clientEmpty
        /\ clientCache # {}

\* C12: two concurrent addFlashNodeToFlashGroup calls for two distinct nodes
\* into the same group, both nodes unassigned and live and both records
\* accepted by the sink, both succeed, and the group's member map ends with
\* both nodes in it.
C12_ConcurrentAddsBothLand ==
    \A p, q \in Procs :
        (/\ p # q
         /\ Done(p) /\ Done(q)
         /\ loc[p].op = "addNode" /\ loc[q].op = "addNode"
         /\ loc[p].flashGroup = loc[q].flashGroup
         /\ loc[p].addr # loc[q].addr
         /\ eff[p].committed = <<loc[p].addr>>
         /\ eff[q].committed = <<loc[q].addr>>)
        => /\ loc[p].err = Nil /\ loc[q].err = Nil
           /\ {loc[p].addr, loc[q].addr} \subseteq flashNodes[loc[p].flashGroup]
           /\ eff[p].mapped = {loc[p].addr}
           /\ eff[q].mapped = {loc[q].addr}

\* C12's case: two adds of the two nodes into one group that had no member
\* have both returned success, and the group has two members.
C12_Witness ==
    \E p, q \in Procs :
        /\ p # q
        /\ Done(p) /\ Done(q)
        /\ loc[p].op = "addNode" /\ loc[q].op = "addNode"
        /\ loc[p].flashGroup = loc[q].flashGroup
        /\ loc[p].addr # loc[q].addr
        /\ loc[p].err = Nil /\ loc[q].err = Nil
        /\ flashNodes[loc[p].flashGroup] = {loc[p].addr, loc[q].addr}

\* C13: in every reachable state each slot value is owned by at most one
\* group of the registry and no group lists the same slot twice, whether the
\* slots were allocated or supplied and also when two creations run
\* concurrently.
C13_SlotsHaveOneOwner ==
    /\ \A g, h \in flashGroupMap :
          g # h => Range(Slots[g]) \cap Range(Slots[h]) = {}
    /\ \A g \in flashGroupMap : Cardinality(Range(Slots[g])) = Len(Slots[g])

\* The places from which a worker's step takes the lock of the group it works
\* on: the write lock (put, delete, set-status) or the read lock (host
\* listings, member count, admin view).
GroupLockSteps ==
    {"add_put", "rm_del", "sg_lock", "rz_hosts", "rg_hosts", "rg_topo",
     "add_view", "rm_view", "rg_view", "sg_view", "gg_view", "cg_view"}

\* The places from which a worker's step takes the lock of the node it works on.
NodeLockSteps == {"add_set", "rm_set"}

TouchesWithoutLocking == {"rg_cap", "sg_sync"}

\* C15: every read and every write of a registered group's slots, status and
\* member map is made by a caller that holds the group's lock: a worker
\* whose next step touches these fields without taking the lock holds it.
C15_GroupFieldsTouchedUnderLock ==
    \A p \in Procs :
        (pc[p] \in TouchesWithoutLocking /\ getFlashGroup(loc[p].flashGroup))
            => fgLock[loc[p].flashGroup] = p

\* C16: in every reachable state a node is in the member map of at most one
\* group, whatever the interleaving of the adds and removes of the node.
\* Stated here for the states in which every call has returned, which the
\* claim includes: a violation there is no window inside a call.
C16_NodeInOneMemberMap ==
    AllAtRest =>
        \A n \in Nodes :
            Cardinality({g \in flashGroupMap : n \in flashNodes[g]}) <= 1

\* The requests that change the membership, the slots or the status.
MutatingOps == {"addNode", "addZone", "removeNode", "removeZone", "removeGroup",
                "setStatus", "createGroup"}

\* Every request of the run has returned, each worker has served one, and
\* all of them were mutating requests that returned success.
AllMutationsSucceeded ==
    /\ budget = 0
    /\ \A p \in Procs : Done(p) /\ loc[p].op \in MutatingOps /\ loc[p].err = Nil

InitiallyUnassigned == Nodes \ UNION InitialMembers

\* The only two requests made so far were single-node assignments of the same
\* initially unassigned node n, by p to one group and by q to another, and
\* both have returned.
BothAssigned(p, q, n) ==
    /\ p # q
    /\ budget = MaxRequests - Cardinality(Procs)
    /\ Done(p) /\ loc[p].op = "addNode" /\ loc[p].addr = n
    /\ Done(q) /\ loc[q].op = "addNode" /\ loc[q].addr = n
    /\ loc[p].flashGroup # loc[q].flashGroup

\* C19 as stated: of two concurrent assignments of an unassigned node to two
\* groups, one succeeds and the other fails with the conflict error, exactly
\* one assignment record is persisted, and the node's assigned-group field
\* ends as the winner's group.
C19_LoserGetsConflict ==
    \A n \in InitiallyUnassigned : \A p, q \in Procs :
        BothAssigned(p, q, n) =>
            \E w \in {p, q} : \E l \in {p, q} \ {w} :
                /\ loc[w].err = Nil
                /\ loc[l].err = "Conflict"
                /\ Len(eff[w].committed) + Len(eff[l].committed) = 1
                /\ FlashGroupID[n] = loc[w].flashGroup

\* C19, amended: at most one of the two assignments succeeds. When one
\* succeeds, its record is the only one persisted, the field and the persisted
\* record end as the winner's group, the node is a member of the winner's group
\* alone, and the other call has failed: with the conflict error when it
\* reached its check after the winner's write (it submitted nothing and did
\* not find the node stale), with the persistence or the inactive-node error
\* when it failed before the winner took the lock. When both fail, the node
\* ends unassigned and no record is persisted.
C19_AtMostOneAssignmentWins ==
    \A n \in InitiallyUnassigned : \A p, q \in Procs :
        BothAssigned(p, q, n) =>
            /\ ~(loc[p].err = Nil /\ loc[q].err = Nil)
            /\ loc[p].err = Nil =>
                 /\ eff[p].committed = <<n>> /\ eff[q].committed = <<>>
                 /\ FlashGroupID[n] = loc[p].flashGroup
                 /\ nodeStore[n] = loc[p].flashGroup
                 /\ n \in flashNodes[loc[p].flashGroup]
                 /\ n \notin flashNodes[loc[q].flashGroup]
                 /\ loc[q].err \in {"Conflict", "Persistence", "Stale"}
                 /\ (loc[q].err = "Conflict") <=> (eff[q].wrote = {} /\ IsActive[n])
                 /\ (loc[q].err = "Persistence") <=> (eff[q].submits = 1)
            /\ (loc[p].err # Nil /\ loc[q].err # Nil) =>
                 /\ eff[p].committed = <<>> /\ eff[q].committed = <<>>
                 /\ FlashGroupID[n] = unusedFlashNodeFlashGroupID
                 /\ nodeStore[n] = unusedFlashNodeFlashGroupID
                 /\ n \notin flashNodes[loc[p].flashGroup]
                 /\ n \notin flashNodes[loc[q].flashGroup]

\* C19's case: both assignments of the node have returned, one has won and
\* the other was refused with the conflict error.
C19_Witness ==
    \E n \in InitiallyUnassigned : \E p, q \in Procs :
        /\ BothAssigned(p, q, n)
        /\ loc[p].err = Nil /\ loc[q].err = "Conflict"
        /\ FlashGroupID[n] = loc[p].flashGroup
        /\ nodeStore[n] = loc[p].flashGroup

\* ------------------------------------------------ C20: zone-based release
\* C20: a zone-based release from a group with fewer than count members in
\* the zone fails and releases nothing; otherwise, when every single-node
\* release succeeds, it releases exactly count members of that zone (none for
\* count = 0), each of them a member located in the zone, and no other node.
C20_ZoneRemovalReleasesCount ==
    \A p \in Procs :
        (Done(p) /\ loc[p].op = "removeZone") =>
            /\ loc[p].err = "TooFewHosts" =>
                 /\ eff[p].wrote = {} /\ eff[p].submits = 0 /\ eff[p].mapped = {}
            /\ loc[p].err = Nil =>
                 /\ Len(eff[p].committed) = loc[p].count
                 /\ Cardinality(eff[p].mapped) = loc[p].count
                 /\ eff[p].mapped = Range(eff[p].committed)
                 /\ \A n \in eff[p].mapped : ZoneName(n) = loc[p].zoneName

====
